---- MODULE Spec2Model ----
(***************************************************************************)
(* Model of the collection-run-to-qase pipeline.  The repository holds     *)
(* three copies of one script:                                             *)
(*   "main"   src/submit_collection_results_to_qase.js  (v1, per case)     *)
(*   "batch"  src/unnamed/part_000                      (v2, one batch)    *)
(*   "legacy" src/unnamed/part_001                      (v1, per case)     *)
(* Strings are sequences of one-character strings, so that the regular     *)
(* expression and the unescaping are computed character by character.      *)
(***************************************************************************)
EXTENDS Integers, Sequences, FiniteSets, TLC

VARIABLES
    variant,      \* which copy of the script runs
    executions,   \* the normalised report: Seq of [name, assertions]
    remote,       \* the steps the service stores, per case id
    caseIds,      \* module-level const caseIds, computed at load
    pc,           \* "start" | "loop" | "post" | "done" | "pure"
    idx,          \* position of the for..of loop in executions (1-based)
    pending,      \* the result record built and not yet posted (per case)
    tc_results,   \* accumulator of the batch variant
    requests,     \* every HTTP request issued so far, in order
    exitCode,     \* -1 while running, then 0 or 1
    text,         \* input string of the unescaping harness
    out           \* successive results of unescapeMarkdown on text

vars == <<variant, executions, remote, caseIds, pc, idx, pending, tc_results,
          requests, exitCode, text, out>>

pipeVars == <<variant, executions, remote, caseIds, pc, idx, pending,
              tc_results, requests, exitCode>>

-----------------------------------------------------------------------------
(* Bounds *)

MaxExecs == 3
MaxAsserts == 2
MaxSteps == 2
MaxLen == 4

-----------------------------------------------------------------------------
(* The three copies and where they differ *)

Variants == {"main", "batch", "legacy"}

\* /Qase:(\d+)/i in part_000, /Qase:(\d+)/ in the two others
CaseInsensitive(v) == v = "batch"

\* unescapeMarkdown(step.expected_result) in main and part_000,
\* bare step.expected_result in part_001
Unescapes(v) == v # "legacy"

\* one POST of tc_results in part_000, one POST per execution otherwise
IsBatch(v) == v = "batch"

-----------------------------------------------------------------------------
(* Strings *)

\* JavaScript undefined / null, for a field the service left out
Absent == <<"undefined">>

Null == -1

Digits == <<"0", "1", "2", "3", "4", "5", "6", "7", "8", "9">>

IsDigit(c) == \E d \in 1..10 : Digits[d] = c

DigitValue(c) == (CHOOSE d \in 1..10 : Digits[d] = c) - 1

Pattern == <<"Q", "a", "s", "e", ":">>

\* case folding of the letters of the pattern (the i flag)
Fold(c) ==
    CASE c = "Q" -> "q"
      [] c = "A" -> "a"
      [] c = "S" -> "s"
      [] c = "E" -> "e"
      [] OTHER -> c

CharEq(c, p, ci) == IF ci THEN Fold(c) = Fold(p) ELSE c = p

\* the same test with the first letter of the pattern left out
MatchAtSuffix(name, i, ci) ==
    /\ i + Len(Pattern) <= Len(name)
    /\ \A k \in 2..Len(Pattern) : CharEq(name[i + k - 1], Pattern[k], ci)
    /\ IsDigit(name[i + Len(Pattern)])

\* the pattern Qase:\d matches name at position i
MatchAt(name, i, ci) ==
    /\ i + Len(Pattern) <= Len(name)
    /\ \A k \in 1..Len(Pattern) : CharEq(name[i + k - 1], Pattern[k], ci)
    /\ IsDigit(name[i + Len(Pattern)])

\* String.prototype.match without the g flag: leftmost match, 0 for null
MatchIndex(name, ci) ==
    IF \E i \in 1..Len(name) : MatchAt(name, i, ci)
    THEN CHOOSE i \in 1..Len(name) :
            /\ MatchAt(name, i, ci)
            /\ \A j \in 1..(i - 1) : ~MatchAt(name, j, ci)
    ELSE 0

\* capture group (\d+): the greedy run of digits that starts at position p
DigitRunEnd(name, p) ==
    CHOOSE e \in p..Len(name) :
        /\ \A k \in p..e : IsDigit(name[k])
        /\ (e = Len(name) \/ ~IsDigit(name[e + 1]))

RECURSIVE ParseDigits(_, _, _)
ParseDigits(name, p, e) ==
    IF e < p THEN 0
    ELSE 10 * ParseDigits(name, p, e - 1) + DigitValue(name[e])

\* match ? parseInt(match[1]) : null
ExtractCaseId(name, ci) ==
    LET i == MatchIndex(name, ci) IN
    IF i = 0 THEN Null
    ELSE LET p == i + Len(Pattern) IN ParseDigits(name, p, DigitRunEnd(name, p))

\* Boolean(x) for the values the extractor yields: null and 0 are falsy
Truthy(x) == x # Null /\ x # 0

\* the grave accent, which a TLA+ string cannot hold
Backtick == "grave"

Escapable ==
    {"\\", Backtick, "*", "_", "{", "}", "[", "]", "(", ")", "#", "+", "-", ".", "!"}

\* String.prototype.replace with the g flag: one left-to-right scan,
\* a backslash followed by an escapable character is dropped and the scan
\* resumes after that character
RECURSIVE ReplaceFrom(_, _)
ReplaceFrom(s, i) ==
    IF i > Len(s) THEN <<>>
    ELSE IF s[i] = "\\" /\ i < Len(s) /\ s[i + 1] \in Escapable
         THEN <<s[i + 1]>> \o ReplaceFrom(s, i + 2)
         ELSE <<s[i]>> \o ReplaceFrom(s, i + 1)

\* a scan that stops replacing after the first escape (a missing g flag)
RECURSIVE ReplaceFirstOnly(_, _)
ReplaceFirstOnly(s, i) ==
    IF i > Len(s) THEN <<>>
    ELSE IF s[i] = "\\" /\ i < Len(s) /\ s[i + 1] \in Escapable
         THEN <<s[i + 1]>> \o SubSeq(s, i + 2, Len(s))
         ELSE <<s[i]>> \o ReplaceFirstOnly(s, i + 1)

unescapeMarkdownFirstOnly(t) ==
    IF t = Absent \/ t = <<>> THEN t ELSE ReplaceFirstOnly(t, 1)

unescapeMarkdown(t) ==
    IF t = Absent \/ t = <<>> THEN t ELSE ReplaceFrom(t, 1)

-----------------------------------------------------------------------------
(* Result Aggregator: the body of the for..of loop of submitResults *)

\* placeholder sent when a step has no (or an empty) expected_result
ExpectedDefault == <<"Expected result">>

\* a value JavaScript treats as false in  x || y : undefined or ""
Falsy(t) == t = Absent \/ t = <<>>

\* a find that keeps the last assertion of that name instead of the first
FindAssertionLast(assertions, target) ==
    IF \E j \in 1..Len(assertions) : assertions[j].name = target
    THEN CHOOSE j \in 1..Len(assertions) :
            /\ assertions[j].name = target
            /\ \A k \in (j + 1)..Len(assertions) : assertions[k].name # target
    ELSE 0

\* Array.prototype.find on assertion names: first index, 0 for undefined
FindAssertion(assertions, target) ==
    IF \E j \in 1..Len(assertions) : assertions[j].name = target
    THEN CHOOSE j \in 1..Len(assertions) :
            /\ assertions[j].name = target
            /\ \A k \in 1..(j - 1) : assertions[k].name # target
    ELSE 0

\* the string the copy compares assertion names with
MatchTarget(v, step) ==
    IF Unescapes(v) THEN unescapeMarkdown(step.expected_result)
    ELSE step.expected_result

\* assertion ? (assertion.error ? "failed" : "passed") : "failed"
StepStatus(v, assertions, step) ==
    LET j == FindAssertion(assertions, MatchTarget(v, step)) IN
    IF j = 0 THEN "failed"
    ELSE IF assertions[j].error THEN "failed" ELSE "passed"

\* the callback of qaseSteps.map (step.action is copied through unread and
\* is left out; part_000 nests the same three values under data/execution)
StepVerdict(v, assertions, step, index) ==
    [position |-> IF step.position # 0 THEN step.position ELSE index,
     expected_result |-> IF Falsy(step.expected_result) THEN ExpectedDefault
                         ELSE step.expected_result,
     status |-> StepStatus(v, assertions, step)]

StepsQase(v, assertions, qaseSteps) ==
    [k \in 1..Len(qaseSteps) |-> StepVerdict(v, assertions, qaseSteps[k], k)]

\* main, part_000: stepsQase.every(a => a.status !== "failed")
\* part_001:       exec.assertions.every(a => !a.error)
OverallStatus(v, assertions, stepsQase) ==
    IF v = "legacy"
    THEN IF \A j \in 1..Len(assertions) : ~assertions[j].error
         THEN "passed" ELSE "failed"
    ELSE IF \A k \in 1..Len(stepsQase) : stepsQase[k].status # "failed"
         THEN "passed" ELSE "failed"

\* one line per assertion, in assertion order (the error message is opaque)
Comment(assertions) ==
    [j \in 1..Len(assertions) |->
        [mark |-> IF assertions[j].error THEN "cross" ELSE "check",
         name |-> assertions[j].name]]

\* the record posted (main, part_001) or pushed to tc_results (part_000);
\* only part_000 sends the title
RunResult(v, exec, caseId, qaseSteps) ==
    LET stepsQase == StepsQase(v, exec.assertions, qaseSteps) IN
    [case_id |-> caseId,
     title |-> IF IsBatch(v) THEN exec.name ELSE Absent,
     status |-> OverallStatus(v, exec.assertions, stepsQase),
     comment |-> Comment(exec.assertions),
     steps |-> stepsQase]

\* response.data.result.steps || []
getCaseSteps(caseId) ==
    IF remote[caseId].present THEN remote[caseId].steps ELSE <<>>

-----------------------------------------------------------------------------
(* Case-ID Extractor: the module-level const caseIds *)

RawIds(v, execs) ==
    [k \in 1..Len(execs) |-> ExtractCaseId(execs[k].name, CaseInsensitive(v))]

\* the list without the Set
KeepAll(xs) == xs

\* [...new Set(xs)]: distinct values in first-seen order
RECURSIVE UniqueInOrder(_)
UniqueInOrder(xs) ==
    IF xs = <<>> THEN <<>>
    ELSE LET r == UniqueInOrder(SubSeq(xs, 1, Len(xs) - 1))
             x == xs[Len(xs)]
         IN IF \E j \in 1..Len(r) : r[j] = x THEN r ELSE Append(r, x)

CaseIdsOf(v, execs) == UniqueInOrder(SelectSeq(RawIds(v, execs), Truthy))

-----------------------------------------------------------------------------
(* Inputs *)

NameQase12 == <<"Q", "a", "s", "e", ":", "1", "2">>
NameLower12 == <<"q", "a", "s", "e", ":", "1", "2">>
NameQase0 == <<"Q", "a", "s", "e", ":", "0">>
NameInner7 == <<"x", "Q", "a", "s", "e", ":", "7", "x">>
NameCase7 == <<"C", "a", "s", "e", ":", "7">>
NameNoDigits == <<"Q", "a", "s", "e", ":", "x">>

Names == {NameQase12, NameLower12, NameQase0, NameInner7, NameCase7,
          NameNoDigits}

\* every case id some copy can derive from some name
CaseUniverse == {ExtractCaseId(n, TRUE) : n \in Names} \ {Null}

TextDot == <<".">>
TextEscDot == <<"\\", ".">>
TextA == <<"a">>

AssertionNames == {TextDot, TextEscDot}

Assertions == [name : AssertionNames, error : BOOLEAN]

StepTexts == {Absent, TextA, TextDot, TextEscDot}

\* position 0 stands for a step without position
Steps == [position : {0}, expected_result : StepTexts]
            \cup {[position |-> 5, expected_result |-> TextDot]}

SeqsUpTo(S, n) == UNION {[1..k -> S] : k \in 0..n}

\* what the service may hold for a case: no steps field, or a step list
RemoteCases ==
    {[present |-> FALSE, steps |-> <<>>]}
        \cup {[present |-> TRUE, steps |-> q] : q \in SeqsUpTo(Steps, MaxSteps)}

PlainAssertions == <<[name |-> TextDot, error |-> FALSE]>>

\* reports that vary the names: the extractor and the control flow
FlowReports ==
    SeqsUpTo([name : Names, assertions : {PlainAssertions}], MaxExecs)

FlowRemotes ==
    {[present |-> FALSE, steps |-> <<>>],
     [present |-> TRUE,
      steps |-> <<[position |-> 0, expected_result |-> TextDot]>>]}

\* reports that vary the assertions of one matched execution, after one
\* execution the loop skips
AggReports ==
    {<<[name |-> NameCase7, assertions |-> PlainAssertions],
       [name |-> NameQase12, assertions |-> a]>> :
        a \in SeqsUpTo(Assertions, MaxAsserts)}

Alphabet == {"\\", "*", "a"}

Texts == SeqsUpTo(Alphabet, MaxLen)

-----------------------------------------------------------------------------
(* The script, top to bottom *)

InitPipeline(reports, remotes) ==
    /\ variant \in Variants
    /\ executions \in reports
    /\ \E r \in remotes : remote = [c \in CaseUniverse |-> r]
    /\ caseIds = CaseIdsOf(variant, executions)
    /\ pc = "start"
    /\ idx = 0
    /\ pending = <<>>
    /\ tc_results = <<>>
    /\ requests = <<>>
    /\ exitCode = -1
    /\ text = <<>>
    /\ out = <<>>

Init == InitPipeline(FlowReports, FlowRemotes)

InitAgg == InitPipeline(AggReports, RemoteCases)

\* one HTTP request: its endpoint, its payload, whether it was answered
\* (ok) or threw, and the loop position at which it was issued (exec, 0
\* outside the loop)
Request(kind, exec, case, cases, results, ok) ==
    [kind |-> kind, exec |-> exec, case |-> case, cases |-> cases,
     results |-> results, ok |-> ok]

\* a push at the front of the accumulator
PushFront(results, rec) == <<rec>> \o results

\* tc_results.push(rec)
Push(results, rec) == Append(results, rec)

\* catch (err) { console.error(...); process.exit(1); }
Abort ==
    /\ pc' = "done"
    /\ exitCode' = 1

\* const runId = await createTestRun(caseIds)
CreateRun ==
    /\ pc = "start"
    /\ requests' = Append(requests, Request("run", 0, Null, caseIds, <<>>, TRUE))
    /\ pc' = "loop"
    /\ idx' = 1
    /\ UNCHANGED <<variant, executions, remote, caseIds, pending, tc_results,
                   exitCode, text, out>>

CreateRunFail ==
    /\ pc = "start"
    /\ requests' = Append(requests, Request("run", 0, Null, caseIds, <<>>, FALSE))
    /\ Abort
    /\ UNCHANGED <<variant, executions, remote, caseIds, idx, pending,
                   tc_results, text, out>>

InLoop == pc = "loop" /\ idx <= Len(executions)

Matches(v, exec) == MatchIndex(exec.name, CaseInsensitive(v)) # 0

\* if (!match) continue;
SkipExecution ==
    /\ InLoop
    /\ ~Matches(variant, executions[idx])
    /\ idx' = idx + 1
    /\ UNCHANGED <<variant, executions, remote, caseIds, pc, pending,
                   tc_results, requests, exitCode, text, out>>

\* await getCaseSteps(caseId) answers; the record is built; part_000 pushes
\* it and goes on, the others stand before their axios.post
FetchSteps ==
    /\ InLoop
    /\ Matches(variant, executions[idx])
    /\ LET exec == executions[idx]
           caseId == ExtractCaseId(exec.name, CaseInsensitive(variant))
           rec == RunResult(variant, exec, caseId, getCaseSteps(caseId))
       IN /\ requests' =
                Append(requests, Request("steps", idx, caseId, <<>>, <<>>, TRUE))
          /\ IF IsBatch(variant)
             THEN /\ tc_results' = Push(tc_results, rec)
                  /\ idx' = idx + 1
                  /\ UNCHANGED <<pc, pending>>
             ELSE /\ pending' = <<rec>>
                  /\ pc' = "post"
                  /\ UNCHANGED <<idx, tc_results>>
    /\ UNCHANGED <<variant, executions, remote, caseIds, exitCode, text, out>>

\* a failed fetch that is logged and passed over, the loop going on
FetchStepsFailContinue ==
    /\ InLoop
    /\ Matches(variant, executions[idx])
    /\ LET caseId == ExtractCaseId(executions[idx].name,
                                   CaseInsensitive(variant))
       IN requests' =
            Append(requests, Request("steps", idx, caseId, <<>>, <<>>, FALSE))
    /\ idx' = idx + 1
    /\ UNCHANGED <<variant, executions, remote, caseIds, pc, pending,
                   tc_results, exitCode, text, out>>

\* await getCaseSteps(caseId) throws
FetchStepsFail ==
    /\ InLoop
    /\ Matches(variant, executions[idx])
    /\ LET caseId == ExtractCaseId(executions[idx].name,
                                   CaseInsensitive(variant))
       IN requests' =
            Append(requests, Request("steps", idx, caseId, <<>>, <<>>, FALSE))
    /\ Abort
    /\ UNCHANGED <<variant, executions, remote, caseIds, idx, pending,
                   tc_results, text, out>>

\* await axios.post(.../v1/result/...) of main and part_001 answers
PostResult ==
    /\ pc = "post"
    /\ requests' = Append(requests,
            Request("result", idx, pending[1].case_id, <<>>, pending, TRUE))
    /\ pending' = <<>>
    /\ idx' = idx + 1
    /\ pc' = "loop"
    /\ UNCHANGED <<variant, executions, remote, caseIds, tc_results, exitCode,
                   text, out>>

PostResultFail ==
    /\ pc = "post"
    /\ requests' = Append(requests,
            Request("result", idx, pending[1].case_id, <<>>, pending, FALSE))
    /\ Abort
    /\ UNCHANGED <<variant, executions, remote, caseIds, idx, pending,
                   tc_results, text, out>>

LoopOver == pc = "loop" /\ idx > Len(executions)

\* part_000 after the loop: await axios.post(.../v2/.../results) answers
PostBatch ==
    /\ LoopOver
    /\ IsBatch(variant)
    /\ requests' = Append(requests,
            Request("results", 0, Null, <<>>, tc_results, TRUE))
    /\ pc' = "done"
    /\ exitCode' = 0
    /\ UNCHANGED <<variant, executions, remote, caseIds, idx, pending,
                   tc_results, text, out>>

PostBatchFail ==
    /\ LoopOver
    /\ IsBatch(variant)
    /\ requests' = Append(requests,
            Request("results", 0, Null, <<>>, tc_results, FALSE))
    /\ Abort
    /\ UNCHANGED <<variant, executions, remote, caseIds, idx, pending,
                   tc_results, text, out>>

\* main and part_001 after the loop: the script ends
Finish ==
    /\ LoopOver
    /\ ~IsBatch(variant)
    /\ pc' = "done"
    /\ exitCode' = 0
    /\ UNCHANGED <<variant, executions, remote, caseIds, idx, pending,
                   tc_results, requests, text, out>>

Next ==
    \/ CreateRun
    \/ CreateRunFail
    \/ SkipExecution
    \/ FetchSteps
    \/ FetchStepsFail
    \/ PostResult
    \/ PostResultFail
    \/ PostBatch
    \/ PostBatchFail
    \/ Finish

Spec == Init /\ [][Next]_vars

SpecAgg == InitAgg /\ [][Next]_vars

-----------------------------------------------------------------------------
(* unescapeMarkdown on its own, applied again to its own result *)

InitUnescape ==
    /\ text \in Texts
    /\ out = <<>>
    /\ variant = "main"
    /\ executions = <<>>
    /\ remote = [c \in CaseUniverse |-> [present |-> FALSE, steps |-> <<>>]]
    /\ caseIds = <<>>
    /\ pc = "pure"
    /\ idx = 0
    /\ pending = <<>>
    /\ tc_results = <<>>
    /\ requests = <<>>
    /\ exitCode = -1

Unescape ==
    /\ pc = "pure"
    /\ Len(out) < 2
    /\ out' = Append(out, unescapeMarkdown(IF out = <<>> THEN text
                                           ELSE out[Len(out)]))
    /\ UNCHANGED <<text, pipeVars>>

NextUnescape == Unescape

SpecUnescape == InitUnescape /\ [][NextUnescape]_vars

-----------------------------------------------------------------------------
(* Reading the request log *)

IsSubmission(n) == requests[n].kind \in {"result", "results"}

\* loop positions of the step fetches that were answered, in order
FetchedExecs ==
    LET done == SelectSeq(requests, LAMBDA q : q.kind = "steps" /\ q.ok)
    IN [k \in 1..Len(done) |-> done[k].exec]

\* the execution the k-th record of request n was built from
ExecOfRecord(n, k) ==
    IF requests[n].kind = "result" THEN requests[n].exec ELSE FetchedExecs[k]

\* every record sent so far, as <<request, position>>
SentRecords ==
    {<<n, k>> \in (1..Len(requests)) \X (1..(MaxExecs + 1)) :
        IsSubmission(n) /\ k <= Len(requests[n].results)}

\* the steps the service returned for the execution at loop position i
StepsFetchedFor(i) ==
    LET c == CHOOSE q \in 1..Len(requests) :
                requests[q].kind = "steps" /\ requests[q].exec = i
    IN IF remote[requests[c].case].present
       THEN remote[requests[c].case].steps ELSE <<>>

\* indices of the assertions whose name equals the unescaped expected_result
NamedLike(assertions, step) ==
    {j \in 1..Len(assertions) :
        assertions[j].name = unescapeMarkdown(step.expected_result)}

FirstOf(S) == CHOOSE j \in S : \A k \in S : j <= k

AllStepsPassed(rec) ==
    \A k \in 1..Len(rec.steps) : rec.steps[k].status = "passed"

-----------------------------------------------------------------------------
(* Claims on the Result Aggregator, checked under SpecAgg *)

\* C1: in every copy, the overall status sent for an execution is "passed"
\* if and only if every step verdict sent with it is "passed"; with no
\* steps it is "passed", and with steps none of which is matched by an
\* assertion it is "failed", whatever the assertions' own outcomes.
\* part_001 takes the status from the assertions instead.
C1_OverallFromSteps ==
    \A p \in SentRecords :
        LET rec == requests[p[1]].results[p[2]]
            exec == executions[ExecOfRecord(p[1], p[2])]
            qaseSteps == StepsFetchedFor(ExecOfRecord(p[1], p[2]))
        IN /\ (rec.status = "passed") <=> AllStepsPassed(rec)
           /\ rec.status \in {"passed", "failed"}
           /\ qaseSteps = <<>> => rec.status = "passed"
           /\ (/\ qaseSteps # <<>>
               /\ \A k \in 1..Len(qaseSteps) :
                    NamedLike(exec.assertions, qaseSteps[k]) = {})
                => rec.status = "failed"

\* the verdict the specification gives one step
ExpectedVerdict(assertions, step) ==
    LET M == NamedLike(assertions, step) IN
    IF M # {} /\ ~assertions[FirstOf(M)].error THEN "passed" ELSE "failed"

\* C2: one verdict per fetched step, in the steps' order; it is "passed"
\* exactly when some assertion is named like the unescaped expected_result
\* and the first such assertion has no error, else "failed".
\* part_001 compares with the expected_result as it came.
C2_StepVerdicts ==
    \A p \in SentRecords :
        LET rec == requests[p[1]].results[p[2]]
            exec == executions[ExecOfRecord(p[1], p[2])]
            qaseSteps == StepsFetchedFor(ExecOfRecord(p[1], p[2]))
        IN /\ Len(rec.steps) = Len(qaseSteps)
           /\ \A k \in 1..Len(qaseSteps) :
                /\ rec.steps[k].status =
                        ExpectedVerdict(exec.assertions, qaseSteps[k])
                /\ rec.steps[k].expected_result =
                        IF Falsy(qaseSteps[k].expected_result)
                        THEN ExpectedDefault
                        ELSE qaseSteps[k].expected_result

-----------------------------------------------------------------------------
(* Claims on the Case-ID Extractor and the control flow, checked under Spec *)

\* the run-creation request, once issued
RunIssued == requests # <<>>

RunCases == requests[1].cases

LowerPattern == <<"q", "a", "s", "e", ":">>

Lowered(c) ==
    IF c = "Q" THEN "q" ELSE IF c = "A" THEN "a" ELSE IF c = "S" THEN "s"
    ELSE IF c = "E" THEN "e" ELSE c

\* position i of name starts a token Qase:<digit>, in any letter case
TokenAt(name, i) ==
    /\ i + 5 <= Len(name)
    /\ [k \in 1..5 |-> Lowered(name[i + k - 1])] = LowerPattern
    /\ IsDigit(name[i + 5])

\* the number a token stands for (the names of the model hold tokens of at
\* most two digits)
TokenValue(name, i) ==
    IF i + 6 <= Len(name) /\ IsDigit(name[i + 6])
    THEN 10 * DigitValue(name[i + 5]) + DigitValue(name[i + 6])
    ELSE DigitValue(name[i + 5])

HasToken(name) == \E i \in 1..Len(name) : TokenAt(name, i)

\* the name holds the token Qase:<digits> for case id c
HasTokenFor(name, c) ==
    \E i \in 1..Len(name) : TokenAt(name, i) /\ TokenValue(name, i) = c

\* the execution at loop position i had its steps requested / a record sent
FetchedFor(i) ==
    \E n \in 1..Len(requests) : requests[n].kind = "steps" /\ requests[n].exec = i

SubmittedFor(i) == \E p \in SentRecords : ExecOfRecord(p[1], p[2]) = i

\* C4: the pattern is matched without regard to letter case in both places:
\* an execution named Qase:12 and one named qase:12 both put 12 in the case
\* list of the run, and both are submitted with case id 12 when the script
\* ends with exit code 0.  main and part_001 have no i flag.
C4_CaseInsensitive ==
    \A i \in 1..Len(executions) :
        executions[i].name \in {NameQase12, NameLower12} =>
            /\ RunIssued => \E k \in 1..Len(RunCases) : RunCases[k] = 12
            /\ exitCode = 0 =>
                \E p \in SentRecords :
                    /\ ExecOfRecord(p[1], p[2]) = i
                    /\ requests[p[1]].results[p[2]].case_id = 12

\* C6: an execution whose name holds no Qase:<digits> token gives the case
\* list no id, has no steps fetched and no record sent, wherever it stands
\* in the report.
C6_NoTokenExcluded ==
    /\ RunIssued =>
        \A k \in 1..Len(RunCases) :
            \E i \in 1..Len(executions) :
                HasTokenFor(executions[i].name, RunCases[k])
    /\ \A i \in 1..Len(executions) :
        ~HasToken(executions[i].name) => ~FetchedFor(i) /\ ~SubmittedFor(i)
    /\ \A n \in 1..Len(requests) :
        requests[n].kind \in {"steps", "result"} =>
            HasTokenFor(executions[requests[n].exec].name, requests[n].case)

\* C6 witness: the script ended with exit code 0 on a report in which an
\* execution without token stands between two executions that were
\* submitted.
C6_Witness ==
    /\ exitCode = 0
    /\ \E i, j, k \in 1..Len(executions) :
        /\ i < j /\ j < k
        /\ ~HasToken(executions[j].name)
        /\ SubmittedFor(i) /\ SubmittedFor(k)

\* the ids the copy derives from the report and keeps (truthy)
KeptIds ==
    {ExtractCaseId(executions[i].name, CaseInsensitive(variant)) :
        i \in 1..Len(executions)} \ {Null, 0}

FirstSeen(c) ==
    CHOOSE i \in 1..Len(executions) :
        /\ ExtractCaseId(executions[i].name, CaseInsensitive(variant)) = c
        /\ \A j \in 1..(i - 1) :
            ExtractCaseId(executions[j].name, CaseInsensitive(variant)) # c

\* C7: the case list of the run request holds each case id at most once;
\* the executions from which one id is derived give it exactly one entry,
\* and the entries stand in first-seen order.
C7_Deduplicated ==
    RunIssued =>
        /\ \A a, b \in 1..Len(RunCases) : RunCases[a] = RunCases[b] => a = b
        /\ {RunCases[k] : k \in 1..Len(RunCases)} = KeptIds
        /\ \A a, b \in 1..Len(RunCases) :
            a < b => FirstSeen(RunCases[a]) < FirstSeen(RunCases[b])

\* C7 witness: the run was requested for a report in which two executions
\* give the same id and a later one gives another id.
C7_Witness ==
    /\ RunIssued
    /\ Len(RunCases) = 2
    /\ \E i, j, k \in 1..Len(executions) :
        /\ i < j /\ j < k
        /\ ExtractCaseId(executions[i].name, CaseInsensitive(variant)) = RunCases[1]
        /\ ExtractCaseId(executions[j].name, CaseInsensitive(variant)) = RunCases[1]
        /\ ExtractCaseId(executions[k].name, CaseInsensitive(variant)) = RunCases[2]

\* C9: every record submitted carries a case id that is in the case list
\* the run was created with, also for an execution named Qase:0.
\* The case list drops the falsy id 0, the loop does not.
C9_SubmittedWithinRun ==
    \A p \in SentRecords :
        \E k \in 1..Len(RunCases) :
            RunCases[k] = requests[p[1]].results[p[2]].case_id

\* C5: a request that fails is the last request of the invocation, which
\* has ended with exit code 1: nothing is fetched or submitted for later
\* executions, nothing is sent again, and after a failed run creation no
\* fetch and no submission is issued at all.
C5_FailureEndsInvocation ==
    /\ \A n \in 1..Len(requests) :
        ~requests[n].ok => n = Len(requests) /\ pc = "done" /\ exitCode = 1
    /\ exitCode = 1 => pc = "done" /\ ~requests[Len(requests)].ok
    /\ \A n \in 1..Len(requests) : requests[n].kind = "run" <=> n = 1

\* C5 witness: a step fetch failed after an earlier execution was handled,
\* while a later execution with a token was still waiting.
C5_Witness ==
    /\ exitCode = 1
    /\ Len(requests) > 2
    /\ requests[Len(requests)].kind = "steps"
    /\ \E i \in 1..Len(executions) :
        /\ i > requests[Len(requests)].exec
        /\ HasTokenFor(executions[i].name, 12)
        /\ ~FetchedFor(i)

\* the loop of the copy lets the name through: Qase:<digit>, in any letter
\* case for part_000, in this very case for the two others
LetThrough(v, name) ==
    \E i \in 1..Len(name) :
        /\ TokenAt(name, i)
        /\ v = "batch" \/ SubSeq(name, i, i + 4) = Pattern

\* loop positions of the matched executions, in report order
MatchedExecs ==
    LET S == {i \in 1..Len(executions) : LetThrough(variant, executions[i].name)}
    IN [k \in 1..Cardinality(S) |->
            CHOOSE i \in S : Cardinality({j \in S : j < i}) = k - 1]

\* C10, per-case copies: after the run request the log alternates, in report
\* order of the matched executions, one step fetch and, right after it, one
\* result request with one record for the same execution; at exit code 0
\* every matched execution has had both.
PerCaseShape ==
    /\ \A n \in 2..Len(requests) :
        IF (n - 1) % 2 = 1
        THEN /\ requests[n].kind = "steps"
             /\ n \div 2 <= Len(MatchedExecs)
             /\ requests[n].exec = MatchedExecs[n \div 2]
        ELSE /\ requests[n].kind = "result"
             /\ requests[n - 1].ok
             /\ requests[n].exec = requests[n - 1].exec
             /\ Len(requests[n].results) = 1
             /\ requests[n].results[1].case_id = requests[n - 1].case
    /\ exitCode = 0 => Len(requests) = 1 + 2 * Len(MatchedExecs)

\* C10, batch copy: after the run request come the step fetches of the
\* matched executions in report order; the one results request comes last,
\* after all of them were answered, with one record per matched execution
\* in report order; at exit code 0 it has been issued.
BatchShape ==
    /\ \A n \in 2..Len(requests) :
        \/ /\ requests[n].kind = "steps"
           /\ n - 1 <= Len(MatchedExecs)
           /\ requests[n].exec = MatchedExecs[n - 1]
        \/ /\ requests[n].kind = "results"
           /\ n = Len(requests)
           /\ n = Len(MatchedExecs) + 2
           /\ \A m \in 2..(n - 1) : requests[m].kind = "steps" /\ requests[m].ok
           /\ Len(requests[n].results) = Len(MatchedExecs)
           /\ \A k \in 1..Len(MatchedExecs) :
                /\ requests[n].results[k].title = executions[MatchedExecs[k]].name
                /\ requests[n].results[k].case_id = requests[k + 1].case
    /\ exitCode = 0 => requests[Len(requests)].kind = "results"

\* C10: the batch copy submits once, after every fetch, one record per
\* matched execution in report order; the per-case copies submit one record
\* per matched execution, each right after its own fetch.
C10_SubmissionShape == IF IsBatch(variant) THEN BatchShape ELSE PerCaseShape

\* C10 witness: the batch copy ended with exit code 0 after sending the
\* records of two matched executions of different names, with an execution
\* it skipped in the report.
C10_Witness ==
    /\ IsBatch(variant)
    /\ exitCode = 0
    /\ Len(requests[Len(requests)].results) = 2
    /\ requests[Len(requests)].results[1].title
            # requests[Len(requests)].results[2].title
    /\ Len(executions) > 2

-----------------------------------------------------------------------------
(* Claim on unescapeMarkdown, checked under SpecUnescape *)

DoubleBackslash(t) ==
    \E i \in 1..(Len(t) - 1) : t[i] = "\\" /\ t[i + 1] = "\\"

\* C8 as written: unescaping an unescaped string changes nothing, for
\* every string over an alphabet with the backslash.
C8_Idempotent == Len(out) = 2 => out[2] = out[1]

\* C8 amended: unescaping an unescaped string changes nothing, for every
\* string in which no two backslashes are adjacent.
C8_IdempotentWithoutDoubleBackslash ==
    (Len(out) = 2 /\ ~DoubleBackslash(text)) => out[2] = out[1]

\* C8 witness: a string with two escapes and no adjacent backslashes was
\* unescaped twice, the first time losing both backslashes.
C8_Witness ==
    /\ Len(out) = 2
    /\ ~DoubleBackslash(text)
    /\ Len(out[1]) = Len(text) - 2

====
